---- MODULE Spec2Model ----
(***************************************************************************)
(* Model of the in-memory inverted index and vector space scorer of        *)
(* apps/information-retrieval/Vector Space.ipynb (class IrIndex).          *)
(*                                                                         *)
(* Texts are sequences of one-character strings.  Document ids are the     *)
(* zero-based positions of the code; documents[d + 1] is the text of id d. *)
(* A Python dict is a function together with its iteration order, which    *)
(* is any permutation of its keys.                                         *)
(***************************************************************************)
EXTENDS Integers, Sequences, FiniteSets, TLC

MaxDocs == 2
MaxLen == 3
MaxQueryLen == 4

\* The characters of the texts: two letters and the whitespace character.
Chars == {"a", "b", " "}

Strings(n) == UNION {[1..k -> Chars] : k \in 0..n}

\* The arguments of index_document and of vector_space_search.
Texts == Strings(MaxLen)

Queries == Strings(MaxQueryLen)

Range(s) == {s[i] : i \in DOMAIN s}

Perms(S) == {s \in [1..Cardinality(S) -> S] : Range(s) = S}

(***************************************************************************)
(* The tokenizer: re.compile("^\s+|\s*,*\s*|\s+$").split(text), as the     *)
(* Python 2 regex engine runs it.                                          *)
(***************************************************************************)
IsSpace(c) == c = " "

IsComma(c) == c = ","

RECURSIVE SkipSpaces(_, _)
SkipSpaces(s, i) ==
    IF i < Len(s) /\ IsSpace(s[i + 1]) THEN SkipSpaces(s, i + 1) ELSE i

RECURSIVE SkipCommas(_, _)
SkipCommas(s, i) ==
    IF i < Len(s) /\ IsComma(s[i + 1]) THEN SkipCommas(s, i + 1) ELSE i

\* End offset of the match of the pattern that starts at offset start.  The
\* first alternative that matches wins: ^\s+ at offset 0 before a space,
\* else \s*,*\s* (which matches everywhere, possibly empty, so that \s+$ is
\* never tried).
pattern(s, start) ==
    IF start = 0 /\ Len(s) > 0 /\ IsSpace(s[1])
    THEN SkipSpaces(s, 0)
    ELSE SkipSpaces(s, SkipCommas(s, SkipSpaces(s, start)))

\* The loop of split: an empty match is skipped by one character and does
\* not split; the segment after the last match is always emitted.
RECURSIVE pattern_split(_, _, _)
pattern_split(s, last, start) ==
    IF start > Len(s)
    THEN <<SubSeq(s, last + 1, Len(s))>>
    ELSE LET ptr == pattern(s, start) IN
         IF ptr = start
         THEN IF last = Len(s)
              THEN <<SubSeq(s, last + 1, Len(s))>>
              ELSE pattern_split(s, last, start + 1)
         ELSE <<SubSeq(s, last + 1, start)>> \o pattern_split(s, ptr, ptr)

Split(s) == pattern_split(s, 0, 0)

\* str.count(sub): the number of non-overlapping occurrences of sub in s,
\* scanning from the left; the empty string occurs len(s) + 1 times.
RECURSIVE count_from(_, _, _)
count_from(s, sub, i) ==
    IF i + Len(sub) > Len(s) THEN 0
    ELSE IF SubSeq(s, i + 1, i + Len(sub)) = sub
         THEN 1 + count_from(s, sub, i + Len(sub))
         ELSE count_from(s, sub, i + 1)

count(s, sub) == IF sub = <<>> THEN Len(s) + 1 ELSE count_from(s, sub, 0)

(***************************************************************************)
(* Numbers.  N is at most MaxDocs and a document frequency is at most the   *)
(* number of tokens of all documents, so both are positive integers up to  *)
(* MaxArg and log(N / df) is a combination of the logarithms of the primes *)
(* up to MaxArg with integer coefficients.  A weight or a score is the     *)
(* real number c + SUM_p l[p] * ln p.  1 and the ln p are linearly         *)
(* independent over the rationals, so two such numbers are equal as reals  *)
(* exactly when their records are equal.  Rounding of floats is not        *)
(* modelled.                                                               *)
(***************************************************************************)
MaxArg == MaxDocs * (MaxLen + 1)

IsPrime(n) == n > 1 /\ \A k \in 2..(n - 1) : n % k # 0

Primes == {p \in 2..MaxArg : IsPrime(p)}

RECURSIVE Valuation(_, _)
Valuation(n, p) == IF n % p = 0 THEN 1 + Valuation(n \div p, p) ELSE 0

ZeroLog == [p \in Primes |-> 0]

IntNum(n) == [c |-> n, l |-> ZeroLog]

Zero == IntNum(0)

\* math.log(float(n) / float(df)).  With n = 0 or df = 0 the Python
\* expression raises; the arguments are recorded in idf_args by the caller.
log(n, df) ==
    IF n < 1 \/ df < 1 THEN Zero
    ELSE [c |-> 0, l |-> [p \in Primes |-> Valuation(n, p) - Valuation(df, p)]]

Add(x, y) == [c |-> x.c + y.c, l |-> [p \in Primes |-> x.l[p] + y.l[p]]]

\* The product of two numbers of which at least one is an integer (the
\* product of two logarithms is outside this representation; the code never
\* forms one, since one side of its dot product is a list of counts).
Mul(x, y) == [c |-> x.c * y.c, l |-> [p \in Primes |-> x.c * y.l[p] + y.c * x.l[p]]]

\* numpy.dot of two lists of the same length.
RECURSIVE dot(_, _)
dot(a, b) ==
    IF a = <<>> THEN Zero
    ELSE Add(Mul(Head(a), Head(b)), dot(Tail(a), Tail(b)))

(***************************************************************************)
(* The state of an IrIndex object, and the last call of                    *)
(* vector_space_search with its locals and its returned list.              *)
(***************************************************************************)
VARIABLES
    index,                \* self.index: term -> list of document ids
    documents,            \* self.documents: list of texts
    vectors,              \* self.vectors: list of term -> count
    indexed,              \* history: the arguments of the index_document calls
    searched,             \* TRUE when the last call was vector_space_search
    terms,                \* its argument
    terms_tf_dictionary,  \* its local of that name
    terms_tfidf_list,     \* its local of that name, each entry recorded under
                          \* the key of terms_tf_dictionary at its position
    hits_keys,            \* the iteration order of its local hits
    res,                  \* the list it returned
    idf_args              \* the <<term, N, df>> at which it evaluated log(N / df)

vars == <<index, documents, vectors, indexed, searched, terms,
          terms_tf_dictionary, terms_tfidf_list, hits_keys, res, idf_args>>

search_vars == <<terms, terms_tf_dictionary, terms_tfidf_list, hits_keys, res,
                 idf_args>>

EmptyDict == <<>>

Init ==
    /\ index = EmptyDict
    /\ documents = <<>>
    /\ vectors = <<>>
    /\ indexed = <<>>
    /\ searched = FALSE
    /\ terms = <<>>
    /\ terms_tf_dictionary = EmptyDict
    /\ terms_tfidf_list = EmptyDict
    /\ hits_keys = <<>>
    /\ res = <<>>
    /\ idf_args = {}

(***************************************************************************)
(* index_document                                                          *)
(***************************************************************************)
\* index_term with a vector that records presence instead of a count.
index_term_presence(term, document_pos, idx, vector) ==
    LET idx1 == IF term \notin DOMAIN idx THEN idx @@ (term :> <<>>) ELSE idx
    IN  [index  |-> [idx1 EXCEPT ![term] = Append(@, document_pos)],
         vector |-> IF term \notin DOMAIN vector
                    THEN vector @@ (term :> 1)
                    ELSE vector]

\* The body of the loop over the terms of a document: one posting and one
\* count per occurrence of a term.
index_term(term, document_pos, idx, vector) ==
    LET idx1 == IF term \notin DOMAIN idx THEN idx @@ (term :> <<>>) ELSE idx
    IN  [index  |-> [idx1 EXCEPT ![term] = Append(@, document_pos)],
         vector |-> IF term \notin DOMAIN vector
                    THEN vector @@ (term :> 1)
                    ELSE [vector EXCEPT ![term] = @ + 1]]

RECURSIVE index_terms(_, _, _, _)
index_terms(ts, document_pos, idx, vector) ==
    IF ts = <<>> THEN [index |-> idx, vector |-> vector]
    ELSE LET r == index_term(Head(ts), document_pos, idx, vector)
         IN  index_terms(Tail(ts), document_pos, r.index, r.vector)

\* document_position taken as the length of the store instead of its last
\* position.
document_position_length(docs) == Len(docs)

document_position(docs) == Len(docs) - 1

index_document(document) ==
    LET ts == Split(document)
        docs == Append(documents, document)
        document_pos == document_position(docs)
        r == index_terms(ts, document_pos, index, EmptyDict)
    IN  /\ documents' = docs
        /\ index' = r.index
        /\ vectors' = Append(vectors, r.vector)
        /\ indexed' = Append(indexed, document)
        /\ UNCHANGED <<searched, search_vars>>

IndexDocument ==
    /\ ~searched
    /\ Len(documents) < MaxDocs
    /\ \E document \in Texts : index_document(document)

(***************************************************************************)
(* vector_space_search and its helpers                                     *)
(***************************************************************************)
\* create_tf_dictionary: each distinct term of the query, at its first
\* occurrence, gets the number of times it occurs in the query STRING.
RECURSIVE tf_dictionary_loop(_, _, _)
tf_dictionary_loop(ts, text, d) ==
    IF ts = <<>> THEN d
    ELSE LET term == Head(ts)
         IN  tf_dictionary_loop(Tail(ts), text,
                 IF term \notin DOMAIN d
                 THEN d @@ (term :> count(text, term))
                 ELSE d)

create_tf_dictionary(text) == tf_dictionary_loop(Split(text), text, EmptyDict)

\* create_tfidf_list with one argument returning 1 for every key instead of
\* its count.
create_tfidf_list_1_binary(tf, keys) ==
    [i \in 1..Len(keys) |-> IntNum(1)]

\* create_tfidf_list with one argument: the values of the dictionary, in
\* its iteration order.
create_tfidf_list_1(tf, keys) ==
    [i \in 1..Len(keys) |-> IntNum(tf[keys[i]])]

\* len(self.index[term]); 0 stands for the KeyError of a term without a
\* posting list.
df(term) == IF term \in DOMAIN index THEN Len(index[term]) ELSE 0

\* tfidf_entry without the factor of the document's count.
tfidf_entry_without_tf(term, vector) ==
    IF term \in DOMAIN vector
    THEN [value |-> log(Len(documents), df(term)),
          idf_args |-> {<<term, Len(documents), df(term)>>}]
    ELSE [value |-> Zero, idf_args |-> {}]

\* tfidf_entry with the idf evaluated before the test of the term.
tfidf_entry_idf_first(term, vector) ==
    [value |-> IF term \in DOMAIN vector
               THEN Mul(IntNum(vector[term]), log(Len(documents), df(term)))
               ELSE Zero,
     idf_args |-> {<<term, Len(documents), df(term)>>}]

\* One turn of the loop of create_tfidf_list with two arguments: the value
\* appended for a term, and the <<term, N, df>> at which log(N / df) was
\* evaluated in that turn.
tfidf_entry(term, vector) ==
    IF term \in DOMAIN vector
    THEN [value |-> Mul(IntNum(vector[term]), log(Len(documents), df(term))),
          idf_args |-> {<<term, Len(documents), df(term)>>}]
    ELSE [value |-> Zero, idf_args |-> {}]

create_tfidf_list_2(keys, vector) ==
    [i \in 1..Len(keys) |-> tfidf_entry(keys[i], vector).value]

create_tfidf_list_2_args(keys, vector) ==
    UNION {tfidf_entry(keys[i], vector).idf_args : i \in 1..Len(keys)}

\* [term for term in self.pattern.split(terms) if term in self.index]
hitting_terms(text) == SelectSeq(Split(text), LAMBDA term : term \in DOMAIN index)

\* The two nested loops that fill hits: post -> tfidf list, computed for a
\* post when it is first met.
RECURSIVE posts_loop(_, _, _)
posts_loop(posts, keys, hits) ==
    IF posts = <<>> THEN hits
    ELSE LET post == Head(posts)
         IN  posts_loop(Tail(posts), keys,
                 IF post \notin DOMAIN hits
                 THEN hits @@ (post :> create_tfidf_list_2(keys, vectors[post + 1]))
                 ELSE hits)

\* hits_loop that stops after the first hitting term.
hits_loop_first_term(hterms, keys, hits) ==
    IF hterms = <<>> THEN hits
    ELSE posts_loop(index[Head(hterms)], keys, hits)

RECURSIVE hits_loop(_, _, _)
hits_loop(hterms, keys, hits) ==
    IF hterms = <<>> THEN hits
    ELSE hits_loop(Tail(hterms), keys, posts_loop(index[Head(hterms)], keys, hits))

\* The loop of the dot products, over hits in its iteration order.
scores(hkeys, hits, qlist) ==
    [i \in 1..Len(hkeys) |-> <<dot(qlist, hits[hkeys[i]]), documents[hkeys[i] + 1]>>]

\* The entries of a list aligned with the keys, recorded under their keys.
by_key(keys, list) ==
    [term \in Range(keys) |-> list[CHOOSE i \in 1..Len(keys) : keys[i] = term]]

search_hits(text, keys) == hits_loop(hitting_terms(text), keys, EmptyDict)

\* The locals and the returned list of one run of vector_space_search, for
\* one iteration order of each of its two dictionaries.
search_run(text, tf, keys, hits, hkeys) ==
    [terms_tfidf_list |-> by_key(keys, create_tfidf_list_1(tf, keys)),
     hits_keys |-> hkeys,
     res |-> scores(hkeys, hits, create_tfidf_list_1(tf, keys)),
     idf_args |-> UNION {create_tfidf_list_2_args(keys, vectors[post + 1]) :
                            post \in DOMAIN hits}]

search_runs(text) ==
    LET tf == create_tf_dictionary(text)
    IN  UNION {LET hits == search_hits(text, keys)
               IN  {search_run(text, tf, keys, hits, hkeys) :
                        hkeys \in Perms(DOMAIN hits)} :
               keys \in Perms(DOMAIN tf)}

vector_space_search(text) ==
    \E run \in search_runs(text) :
        /\ terms' = text
        /\ terms_tf_dictionary' = create_tf_dictionary(text)
        /\ terms_tfidf_list' = run.terms_tfidf_list
        /\ hits_keys' = run.hits_keys
        /\ res' = run.res
        /\ idf_args' = run.idf_args
        /\ searched' = TRUE
        /\ UNCHANGED <<index, documents, vectors, indexed>>

VectorSpaceSearch ==
    /\ ~searched
    /\ \E text \in Queries : vector_space_search(text)

\* The call returns: the caller has the list, the locals are gone, and the
\* object is ready for the next call.
Return ==
    /\ searched
    /\ searched' = FALSE
    /\ terms' = <<>>
    /\ terms_tf_dictionary' = EmptyDict
    /\ terms_tfidf_list' = EmptyDict
    /\ hits_keys' = <<>>
    /\ res' = <<>>
    /\ idf_args' = {}
    /\ UNCHANGED <<index, documents, vectors, indexed>>

Next == IndexDocument \/ VectorSpaceSearch \/ Return

Spec == Init /\ [][Next]_vars

(***************************************************************************)
(* Vocabulary of the properties                                            *)
(***************************************************************************)
N == Len(documents)

DocIds == 0..(N - 1)

Tokens(text) == Split(text)

\* The number of tokens of a text equal to a term.
TokenCount(text, term) ==
    Cardinality({i \in DOMAIN Tokens(text) : Tokens(text)[i] = term})

\* d.vector[t], 0 when the vector has no entry for t.
DocCount(d, t) == IF t \in DOMAIN vectors[d + 1] THEN vectors[d + 1][t] ELSE 0

Posted(d, t) == t \in DOMAIN index /\ d \in Range(index[t])

KnownTerms ==
    DOMAIN index \cup UNION {DOMAIN vectors[i] : i \in DOMAIN vectors}
                 \cup UNION {Range(Tokens(documents[i])) : i \in DOMAIN documents}

RECURSIVE Sum(_, _)
Sum(f, S) ==
    IF S = {} THEN Zero
    ELSE LET x == CHOOSE y \in S : TRUE IN Add(f[x], Sum(f, S \ {x}))

BagOf(seq) == [x \in Range(seq) |-> Cardinality({i \in DOMAIN seq : seq[i] = x})]

NoDuplicates(seq) == \A i, j \in DOMAIN seq : seq[i] = seq[j] => i = j

\* The lists vector_space_search can return for a query in the current state.
search_results(text) == {run.res : run \in search_runs(text)}

Q_tf == terms_tf_dictionary

\* C1: every result of a search carries, for its candidate document d, the
\* score SUM over the terms t of Q_tf of Q_tf[t] * d.vector[t] * ln(N / df(t)),
\* with N the number of documents at the time of the search, df(t) the length
\* of t's posting list, and 0 for a term that d does not hold.
C1_ClaimedScore(d) ==
    Sum([t \in DOMAIN Q_tf |->
            IF DocCount(d, t) = 0 THEN Zero
            ELSE Mul(IntNum(Q_tf[t] * DocCount(d, t)), log(N, Len(index[t])))],
        DOMAIN Q_tf)

C1_ScoreIsTfIdfSum ==
    searched =>
        /\ Len(res) = Len(hits_keys)
        /\ \A i \in DOMAIN res :
               res[i] = <<C1_ClaimedScore(hits_keys[i]), documents[hits_keys[i] + 1]>>

\* C1 witness: a search over two documents returned the first-indexed one,
\* which holds two different nonempty query terms of nonzero idf.
C1_Witness ==
    /\ searched
    /\ N = 2
    /\ \E i \in DOMAIN res :
           /\ hits_keys[i] = 0
           /\ \E t1, t2 \in DOMAIN Q_tf :
                  /\ t1 # t2 /\ t1 # <<>> /\ t2 # <<>>
                  /\ DocCount(0, t1) > 0 /\ log(N, df(t1)) # Zero
                  /\ DocCount(0, t2) > 0 /\ log(N, df(t2)) # Zero
           /\ res[i][1] # Zero

\* C2: every posting list holds each document id at most once, so that its
\* length is the number of documents holding the term and is at most N.
\* Stated for the terms other than the empty string, for which it fails
\* already.
C2_PostingsHaveNoDuplicates ==
    \A t \in DOMAIN index \ {<<>>} :
        /\ NoDuplicates(index[t])
        /\ Len(index[t]) = Cardinality({d \in DocIds : TokenCount(documents[d + 1], t) > 0})
        /\ Len(index[t]) <= N

\* C3: a document id is in the posting list of a term exactly when the
\* document's vector has a nonzero entry for the term, and that entry is the
\* number of tokens of the document's text equal to the term.
C3_PostingVectorConsistency ==
    /\ Len(vectors) = N
    /\ \A d \in DocIds : \A t \in KnownTerms :
           /\ Posted(d, t) <=> (t \in DOMAIN vectors[d + 1] /\ vectors[d + 1][t] # 0)
           /\ DocCount(d, t) = TokenCount(documents[d + 1], t)

\* C3 witness: two documents, one holding a term twice, and a posting list
\* that names only one of them.
C3_Witness ==
    /\ N = 2
    /\ \E d \in DocIds : \E t \in KnownTerms : DocCount(d, t) >= 2
    /\ \E t \in DOMAIN index : \E d \in DocIds : ~Posted(d, t)

\* C4: a search returns one pair for each document that shares a token with
\* the query, and no other pair.
C4_Candidates == {d \in DocIds :
                    Range(Tokens(documents[d + 1])) \cap Range(Tokens(terms)) # {}}

C4_OneResultPerCandidate ==
    searched =>
        /\ NoDuplicates(hits_keys)
        /\ Range(hits_keys) = C4_Candidates
        /\ Len(res) = Cardinality(C4_Candidates)
        /\ \A i \in DOMAIN res : res[i][2] = documents[hits_keys[i] + 1]

\* C4 witness: of two documents one is returned, once, although it matches
\* two different query terms, is listed twice in the posting list of one of
\* them, and that term is repeated in the query.
C4_Witness ==
    /\ searched
    /\ N = 2
    /\ Len(res) = 1
    /\ LET d == hits_keys[1] IN
       \E t1, t2 \in DOMAIN Q_tf :
           /\ t1 # t2
           /\ Posted(d, t1) /\ Posted(d, t2)
           /\ ~NoDuplicates(index[t1])
           /\ TokenCount(terms, t1) >= 2

\* C5: a term u that is in no posting list, put before a query q and
\* separated from it by whitespace, does not change the multiset of results.
\* Stated for the queries q that begin and end with a letter, so that the
\* tokens of the longer query are u and then the tokens of q, none of them
\* empty; it fails already for these.
IsLetter(c) == ~IsSpace(c) /\ ~IsComma(c)

C5_UnknownTermIsIgnored ==
    searched =>
        \A k \in 2..(Len(terms) - 1) :
            LET u == SubSeq(terms, 1, k - 1)
                q == SubSeq(terms, k + 1, Len(terms))
            IN  (/\ IsSpace(terms[k])
                 /\ \A j \in 1..(k - 1) : IsLetter(terms[j])
                 /\ IsLetter(q[1]) /\ IsLetter(q[Len(q)])
                 /\ u \notin DOMAIN index)
                => \A r \in search_results(q) : BagOf(r) = BagOf(res)

\* C6: the empty query returns the empty list.
C6_EmptyQueryReturnsNothing ==
    (searched /\ terms = <<>>) => res = <<>>

\* C7, as claimed: the query vector's entry for a term t is
\* Q_tf[t] * ln(N / df(t)) when t is in the index and 0 when it is not.
C7_ClaimedQueryWeight(t) ==
    IF t \in DOMAIN index THEN Mul(IntNum(Q_tf[t]), log(N, df(t))) ELSE Zero

C7_QueryVectorIsTfIdf ==
    searched =>
        \A t \in DOMAIN Q_tf : terms_tfidf_list[t] = C7_ClaimedQueryWeight(t)

\* C7, as amended: the query vector's entry for a term t is the raw count
\* Q_tf[t], whether or not t is in the index, and each score is the sum over
\* the query terms of that entry times d.vector[t] * ln(N / df(t)): idf enters
\* each term's contribution once, on the document side.
C7_DocWeight(d, t) ==
    IF t \in DOMAIN vectors[d + 1]
    THEN Mul(IntNum(vectors[d + 1][t]), log(N, df(t)))
    ELSE Zero

C7_QueryVectorIsRawTf ==
    searched =>
        /\ DOMAIN terms_tfidf_list = DOMAIN Q_tf
        /\ \A t \in DOMAIN Q_tf : terms_tfidf_list[t] = IntNum(Q_tf[t])
        /\ \A i \in DOMAIN res :
               res[i][1] = Sum([t \in DOMAIN Q_tf |->
                                   Mul(terms_tfidf_list[t], C7_DocWeight(hits_keys[i], t))],
                               DOMAIN Q_tf)

\* C7 witness: a search whose query holds twice a term of nonzero idf, and
\* also a term that is not in the index, returned a result.
C7_Witness ==
    /\ searched
    /\ res # <<>>
    /\ \E t \in DOMAIN Q_tf :
           t \in DOMAIN index /\ log(N, df(t)) # Zero /\ Q_tf[t] >= 2
    /\ \E t \in DOMAIN Q_tf : t \notin DOMAIN index

\* C8: after k calls of index_document the document store and the vector
\* store have length k, the i-th text is stored at id i - 1, and every id in
\* a posting list is one of 0..k-1 and has its vector.
C8_StoresAdvanceTogether ==
    /\ Len(documents) = Len(indexed)
    /\ Len(vectors) = Len(indexed)
    /\ documents = indexed
    /\ \A t \in DOMAIN index : \A j \in DOMAIN index[t] :
           /\ index[t][j] \in 0..(Len(indexed) - 1)
           /\ index[t][j] + 1 \in DOMAIN vectors

\* C8 witness: a search observes the stores after two calls of index_document
\* with different texts.
C8_Witness ==
    /\ searched
    /\ Len(indexed) = 2
    /\ indexed[1] # indexed[2]
    /\ Len(res) = 2

\* C9: the query's term-frequency vector maps each distinct token of the
\* query to the number of tokens of the query equal to it.  Stated for the
\* tokens other than the empty string, for which it fails already.
C9_QueryTfCountsTokens ==
    searched =>
        /\ DOMAIN Q_tf = Range(Tokens(terms))
        /\ \A t \in DOMAIN Q_tf \ {<<>>} : Q_tf[t] = TokenCount(terms, t)

\* C10: whenever a search evaluates ln(N / df(t)), N >= 1 and df(t) >= 1 and t
\* is a query term that is in the index; with no document indexed a search
\* returns nothing and evaluates no idf.
C10_IdfIsDefined ==
    searched =>
        /\ \A a \in idf_args :
               /\ a[2] >= 1 /\ a[3] >= 1
               /\ a[1] \in DOMAIN Q_tf \cap DOMAIN index
        /\ N = 0 => (res = <<>> /\ idf_args = {})

\* C10 witness: a search evaluated idf although one of its query terms is not
\* in the index.
C10_Witness ==
    /\ searched
    /\ idf_args # {}
    /\ \E t \in DOMAIN Q_tf : t \notin DOMAIN index

====
